---- MODULE Spec2Model ----
(***************************************************************************)
(* Model of VAE/models/dcae.py: the deep-compression autoencoder           *)
(* (the activation and normalization selectors, get_block, Encoder,        *)
(* Decoder, DCDownBlock2d, DCUpBlock2d, the multiscale attention processor *)
(* and the AutoencoderDC policy flags).                                    *)
(*                                                                         *)
(* A tensor is a record [B, C, H, W, data]: its shape and, per batch       *)
(* element, an abstract content term (a sequence of strings: the sample's  *)
(* name followed by the learned maps applied to it).  Weights are          *)
(* uninterpreted; every layer of the file acts on each batch element       *)
(* separately (convolutions, RMS norm over channels, attention per batch   *)
(* element), which is what the per-sample content terms record.            *)
(* A Python exception is a result with ok = FALSE and the exception's      *)
(* class in err.                                                           *)
(***************************************************************************)
EXTENDS Integers, Sequences, FiniteSets, TLC

VARIABLES
    cfg,                        \* constructor arguments of the AutoencoderDC
    use_slicing,                \* self.use_slicing
    use_tiling,                 \* self.use_tiling
    tile_sample_min_height,     \* self.tile_sample_min_height
    tile_sample_min_width,      \* self.tile_sample_min_width
    tile_sample_stride_height,  \* self.tile_sample_stride_height
    tile_sample_stride_width,   \* self.tile_sample_stride_width
    ret,                        \* the last call: its name, arguments and outcome
    history                     \* the most recent slicing call and tiling call

vars == <<cfg, use_slicing, use_tiling, tile_sample_min_height,
          tile_sample_min_width, tile_sample_stride_height,
          tile_sample_stride_width, ret, history>>

flags == <<use_slicing, use_tiling>>

tileParams == <<tile_sample_min_height, tile_sample_min_width,
                tile_sample_stride_height, tile_sample_stride_width>>

-----------------------------------------------------------------------------
(* Bounds of the model *)

MaxBatch == 2       \* batch sizes 0..MaxBatch
MaxLayers == 1      \* layers_per_block entries 0..MaxLayers
MaxStages == 3      \* len(block_out_channels) in 1..MaxStages

(* Program constants *)

factor == 2                         \* DCDownBlock2d.factor, DCUpBlock2d.factor
DefaultTileSampleMin == 512         \* tile_sample_min_height / _width
DefaultTileSampleStride == 448      \* tile_sample_stride_height / _width

None == -1                          \* Python's None for an optional int argument

-----------------------------------------------------------------------------
(* Results of shape computations: <<C, H, W>> of one batch element, or an   *)
(* exception.                                                               *)

Ok(c, h, w) == [ok |-> TRUE, err |-> "", C |-> c, H |-> h, W |-> w]

Raise(e) == [ok |-> FALSE, err |-> e, C |-> 0, H |-> 0, W |-> 0]

Max(a, b) == IF a >= b THEN a ELSE b

\* torch broadcasting of one dimension: equal sizes, or one of them is 1
Broadcastable(a, b) == a = b \/ a = 1 \/ b = 1

\* x + y on two tensors of one batch element
TensorAdd(x, y) ==
    IF ~x.ok THEN x
    ELSE IF ~y.ok THEN y
    ELSE IF Broadcastable(x.C, y.C) /\ Broadcastable(x.H, y.H) /\ Broadcastable(x.W, y.W)
         THEN Ok(Max(x.C, y.C), Max(x.H, y.H), Max(x.W, y.W))
         ELSE Raise("RuntimeError")

\* nn.Conv2d(cin, cout, 3, stride, 1) applied to s
Conv2dForward(cin, cout, stride, s) ==
    IF ~s.ok THEN s
    ELSE IF s.C # cin THEN Raise("RuntimeError")
    ELSE Ok(cout, ((s.H + 2 - 3) \div stride) + 1, ((s.W + 2 - 3) \div stride) + 1)

\* F.pixel_unshuffle(s, r)
PixelUnshuffle(s, r) ==
    IF ~s.ok THEN s
    ELSE IF s.H % r # 0 \/ s.W % r # 0 THEN Raise("RuntimeError")
    ELSE Ok(s.C * r * r, s.H \div r, s.W \div r)

\* F.pixel_shuffle(s, r)
PixelShuffle(s, r) ==
    IF ~s.ok THEN s
    ELSE IF s.C % (r * r) # 0 THEN Raise("RuntimeError")
    ELSE Ok(s.C \div (r * r), s.H * r, s.W * r)

\* s.unflatten(1, (-1, g)).mean(dim=2)
GroupMean(s, g) ==
    IF ~s.ok THEN s
    ELSE IF g = 0 \/ s.C % g # 0 THEN Raise("RuntimeError")
    ELSE Ok(s.C \div g, s.H, s.W)

\* s.repeat_interleave(n, dim=1)
RepeatInterleave(s, n) ==
    IF ~s.ok THEN s ELSE Ok(s.C * n, s.H, s.W)

\* RMSNorm(dim)(s.movedim(1, -1)).movedim(-1, 1): the weight and bias of
\* shape (dim,) are broadcast against the channel axis
RMSNormForward(dim, s) ==
    IF ~s.ok THEN s
    ELSE IF Broadcastable(s.C, dim) THEN Ok(Max(s.C, dim), s.H, s.W)
    ELSE Raise("RuntimeError")

-----------------------------------------------------------------------------
(* The selectors.  An activation name is a sequence of characters, so that *)
(* str.lower() acts on it; a normalization name is compared whole.          *)
(* A selector returns [ok, err, op]: the operator, or the exception raised  *)
(* and no operator.                                                         *)

UpperCase == <<"A", "B", "C", "D", "E", "F", "G", "H", "I", "J", "K", "L", "M",
               "N", "O", "P", "Q", "R", "S", "T", "U", "V", "W", "X", "Y", "Z">>

LowerCase == <<"a", "b", "c", "d", "e", "f", "g", "h", "i", "j", "k", "l", "m",
               "n", "o", "p", "q", "r", "s", "t", "u", "v", "w", "x", "y", "z">>

\* str.lower() on one character
LowerChar(ch) ==
    IF \E k \in DOMAIN UpperCase : UpperCase[k] = ch
    THEN LowerCase[CHOOSE k \in DOMAIN UpperCase : UpperCase[k] = ch]
    ELSE ch

\* act_fn.lower()
Lower(name) == [k \in 1..Len(name) |-> LowerChar(name[k])]

NoOperator == "none"

Selected(op) == [ok |-> TRUE, err |-> "", op |-> op]

SelectError(e) == [ok |-> FALSE, err |-> e, op |-> NoOperator]

\* The dictionary ACTIVATION_FUNCTIONS: key -> the nn.Module it holds
ACTIVATION_FUNCTIONS ==
    (<<"s", "w", "i", "s", "h">> :> "SiLU") @@ (<<"s", "i", "l", "u">> :> "SiLU")
    @@ (<<"m", "i", "s", "h">> :> "Mish") @@ (<<"g", "e", "l", "u">> :> "GELU")
    @@ (<<"r", "e", "l", "u">> :> "ReLU")

\* A get_activation that looks the name up as given
get_activation_exact(act_fn) ==
    IF act_fn \in DOMAIN ACTIVATION_FUNCTIONS
    THEN Selected(ACTIVATION_FUNCTIONS[act_fn])
    ELSE SelectError("ValueError")

\* get_activation(act_fn)
get_activation(act_fn) ==
    IF Lower(act_fn) \in DOMAIN ACTIVATION_FUNCTIONS
    THEN Selected(ACTIVATION_FUNCTIONS[Lower(act_fn)])
    ELSE SelectError("ValueError")

\* get_normalization(norm_type, num_features)
get_normalization(norm_type) ==
    IF norm_type = "rms_norm" THEN Selected("RMSNorm")
    ELSE IF norm_type = "layer_norm" THEN Selected("LayerNorm")
    ELSE IF norm_type = "batch_norm" THEN Selected("BatchNorm2d")
    ELSE SelectError("ValueError")

-----------------------------------------------------------------------------
(* Modules.  A module is a record; a constructor returns                    *)
(* [ok, err, m]: the module, or the exception the constructor raises.       *)

Module(kind, cin, cout, stride, mode, shortcut, n) ==
    [kind |-> kind, cin |-> cin, cout |-> cout, stride |-> stride,
     mode |-> mode, shortcut |-> shortcut, n |-> n]

NoModule == Module("none", 0, 0, 0, FALSE, FALSE, 0)

Built(m) == [ok |-> TRUE, err |-> "", m |-> m]

BuildError(e) == [ok |-> FALSE, err |-> e, m |-> NoModule]

\* nn.Conv2d(cin, cout, 3, stride, 1)
Conv2d(cin, cout, stride) == Module("Conv2d", cin, cout, stride, FALSE, FALSE, 0)

\* ResBlock(in_channels, out_channels, "rms_norm", "silu")
ResBlock(cin, cout) == Module("ResBlock", cin, cout, 1, FALSE, FALSE, 0)

\* ResBlock.__init__(in_channels, out_channels, norm_type, act_fn): the
\* activation is selected first, the normalization after the convolutions
ResBlockInit(cin, cout, norm_type, act_fn) ==
    IF ~get_activation(act_fn).ok THEN BuildError(get_activation(act_fn).err)
    ELSE IF ~get_normalization(norm_type).ok
         THEN BuildError(get_normalization(norm_type).err)
    ELSE Built(ResBlock(cin, cout))

\* EfficientViTBlock(in_channels, attention_head_dim=d): n is the head dim
EfficientViTBlock(cin, d) == Module("EfficientViTBlock", cin, cin, 1, FALSE, FALSE, d)

\* get_block(block_type, in_channels, out_channels, attention_head_dim, ...)
get_block(block_type, cin, cout, d) ==
    IF block_type = "ResBlock" THEN Built(ResBlock(cin, cout))
    ELSE IF block_type = "EfficientViTBlock" THEN Built(EfficientViTBlock(cin, d))
    ELSE BuildError("ValueError")

\* DCDownBlock2d.__init__: mode is `downsample`, n is group_size, cout is
\* the convolution's output channel count
DCDownBlock2dInit(cin, cout, downsample, shortcut) ==
    IF downsample /\ cout % (factor * factor) # 0 THEN BuildError("AssertionError")
    ELSE Built(Module("DCDownBlock2d", cin,
                      IF downsample THEN cout \div (factor * factor) ELSE cout,
                      IF downsample THEN 1 ELSE 2,
                      downsample, shortcut,
                      (cin * factor * factor) \div cout))

\* A DCUpBlock2d whose convolution does not expand the channels by factor^2
\* in pixel-shuffle mode
DCUpBlock2dInitNoExpand(cin, cout, interpolate, shortcut) ==
    Built(Module("DCUpBlock2d", cin, cout, 1, interpolate, shortcut,
                 (cout * factor * factor) \div cin))

\* DCUpBlock2d.__init__: mode is `interpolate`, n is repeats
DCUpBlock2dInit(cin, cout, interpolate, shortcut) ==
    Built(Module("DCUpBlock2d", cin,
                 IF interpolate THEN cout ELSE cout * factor * factor,
                 1, interpolate, shortcut,
                 (cout * factor * factor) \div cin))

\* DCDownBlock2d.forward
DCDownBlock2dForward(m, s) ==
    LET conv == Conv2dForward(m.cin, m.cout, m.stride, s)
        x == IF m.mode THEN PixelUnshuffle(conv, factor) ELSE conv
    IN  IF m.shortcut
        THEN TensorAdd(x, GroupMean(PixelUnshuffle(s, factor), m.n))
        ELSE x

\* One batch element with its elements: the shape s and, when s.ok, v[c][y][x]
\* for channel c, row y and column x, all counted from 0
Array(s, v) == [s |-> s, v |-> v]

\* F.pixel_unshuffle(a, r) with the elements: output channel c*r*r + i*r + j
\* at (y, x) is input channel c at (y*r + i, x*r + j)
PixelUnshuffleData(a, r) ==
    Array(PixelUnshuffle(a.s, r),
          IF ~PixelUnshuffle(a.s, r).ok THEN <<>>
          ELSE [c \in 0..(a.s.C * r * r - 1) |->
                 [y \in 0..((a.s.H \div r) - 1) |->
                   [x \in 0..((a.s.W \div r) - 1) |->
                     a.v[c \div (r * r)][y * r + ((c % (r * r)) \div r)][x * r + (c % r)]]]])

\* v[first] + ... + v[first + n - 1] at (y, x)
RECURSIVE ChannelSum(_, _, _, _, _)
ChannelSum(v, first, n, y, x) ==
    IF n = 0 THEN 0 ELSE v[first][y][x] + ChannelSum(v, first + 1, n - 1, y, x)

\* a.unflatten(1, (-1, g)).mean(dim=2) with the elements: output channel c is
\* the mean of input channels c*g .. c*g + g - 1
GroupMeanData(a, g) ==
    Array(GroupMean(a.s, g),
          IF ~GroupMean(a.s, g).ok THEN <<>>
          ELSE [c \in 0..((a.s.C \div g) - 1) |->
                 [y \in 0..(a.s.H - 1) |->
                   [x \in 0..(a.s.W - 1) |-> ChannelSum(a.v, c * g, g, y, x) \div g]]])

\* The shortcut branch of DCDownBlock2d.forward: y
DCDownBlock2dShortcut(m, a) == GroupMeanData(PixelUnshuffleData(a, factor), m.n)

\* F.interpolate(s, scale_factor=r)
Interpolate(s, r) == IF ~s.ok THEN s ELSE Ok(s.C, s.H * r, s.W * r)

\* DCUpBlock2d.forward
DCUpBlock2dForward(m, s) ==
    LET x == IF m.mode
             THEN Conv2dForward(m.cin, m.cout, 1, Interpolate(s, factor))
             ELSE PixelShuffle(Conv2dForward(m.cin, m.cout, 1, s), factor)
    IN  IF m.shortcut
        THEN TensorAdd(x, PixelShuffle(RepeatInterleave(s, m.n), factor))
        ELSE x

\* ResBlock.forward: conv1, activation, conv2, norm over channels, + residual
ResBlockForward(m, s) ==
    LET h == RMSNormForward(m.cout,
                 Conv2dForward(m.cin, m.cout, 1, Conv2dForward(m.cin, m.cin, 1, s)))
    IN  TensorAdd(h, s)

\* EfficientViTBlock.forward: attention (to_q/to_k/to_v are Linear(in, .) over
\* the channel axis, to_out maps back to in, residual) then GLUMBConv
\* (conv_inverted takes in channels, conv_point returns in, residual)
EfficientViTBlockForward(m, s) ==
    IF ~s.ok THEN s
    ELSE IF s.C # m.cin THEN Raise("RuntimeError")
    ELSE Ok(m.cin, s.H, s.W)

\* module(s)
Forward(m, s) ==
    IF m.kind = "Conv2d" THEN Conv2dForward(m.cin, m.cout, m.stride, s)
    ELSE IF m.kind = "DCDownBlock2d" THEN DCDownBlock2dForward(m, s)
    ELSE IF m.kind = "DCUpBlock2d" THEN DCUpBlock2dForward(m, s)
    ELSE IF m.kind = "ResBlock" THEN ResBlockForward(m, s)
    ELSE EfficientViTBlockForward(m, s)

\* nn.Sequential(*mods)(s)
RECURSIVE Sequential(_, _)
Sequential(mods, s) ==
    IF mods = <<>> THEN s
    ELSE Sequential(Tail(mods), Forward(Head(mods), s))

\* for block in blocks: s = block(s)
RECURSIVE ForEachBlock(_, _)
ForEachBlock(blocks, s) ==
    IF blocks = <<>> THEN s
    ELSE ForEachBlock(Tail(blocks), Sequential(Head(blocks), s))

-----------------------------------------------------------------------------
(* Encoder and Decoder.  c is the record of constructor arguments:          *)
(* in_channels, latent_channels, attention_head_dim, block_type (the tuple  *)
(* of the stages' tags), block_out_channels, layers_per_block,              *)
(* downsample_block_type, upsample_block_type.  Sequences are 1-based:      *)
(* stage i of the model is index i-1 of the source.                         *)

NumBlocks(c) == Len(c.block_out_channels)

Stack(ok, err, blocks) == [ok |-> ok, err |-> err, blocks |-> blocks]

\* The n layers of one stage: n calls of get_block(block_type[i], ch, ch, ...)
StageLayers(c, i) ==
    LET b == get_block(c.block_type[i], c.block_out_channels[i],
                       c.block_out_channels[i], c.attention_head_dim)
        n == c.layers_per_block[i]
    IN  IF n > 0 /\ ~b.ok THEN Stack(FALSE, b.err, <<>>)
        ELSE Stack(TRUE, "", [k \in 1..n |-> b.m])

\* One iteration of the loop of Encoder.__init__: down_block_list of stage i
EncoderStage(c, i) ==
    LET layers == StageLayers(c, i)
        n == c.layers_per_block[i]
        down == DCDownBlock2dInit(c.block_out_channels[i],
                                  c.block_out_channels[i + 1],
                                  c.downsample_block_type = "pixel_unshuffle", TRUE)
    IN  IF ~layers.ok THEN layers
        ELSE IF i < NumBlocks(c) /\ n > 0
             THEN IF down.ok THEN Stack(TRUE, "", Append(layers.blocks, down.m))
                  ELSE Stack(FALSE, down.err, <<>>)
             ELSE layers

\* The loop of Encoder.__init__ from stage i on: self.down_blocks
RECURSIVE EncoderStages(_, _)
EncoderStages(c, i) ==
    IF i > NumBlocks(c) THEN Stack(TRUE, "", <<>>)
    ELSE LET st == EncoderStage(c, i)
             rest == EncoderStages(c, i + 1)
         IN  IF ~st.ok THEN st
             ELSE IF ~rest.ok THEN rest
             ELSE Stack(TRUE, "", <<st.blocks>> \o rest.blocks)

\* self.conv_in of the Encoder
EncoderConvIn(c) ==
    IF c.layers_per_block[1] > 0
    THEN Built(Conv2d(c.in_channels, c.block_out_channels[1], 1))
    ELSE IF NumBlocks(c) < 2 THEN BuildError("IndexError")
    ELSE DCDownBlock2dInit(c.in_channels, c.block_out_channels[2],
                           c.downsample_block_type = "pixel_unshuffle", FALSE)

\* Encoder.__init__ (out_shortcut = True, the default AutoencoderDC uses)
EncoderInit(c) ==
    LET cin == EncoderConvIn(c)
        st == EncoderStages(c, 1)
        last == c.block_out_channels[NumBlocks(c)]
    IN  IF ~cin.ok
        THEN [ok |-> FALSE, err |-> cin.err, conv_in |-> NoModule, down_blocks |-> <<>>,
              conv_out |-> NoModule, out_shortcut_average_group_size |-> 0]
        ELSE IF ~st.ok
        THEN [ok |-> FALSE, err |-> st.err, conv_in |-> NoModule, down_blocks |-> <<>>,
              conv_out |-> NoModule, out_shortcut_average_group_size |-> 0]
        ELSE [ok |-> TRUE, err |-> "", conv_in |-> cin.m, down_blocks |-> st.blocks,
              conv_out |-> Conv2d(last, c.latent_channels, 1),
              out_shortcut_average_group_size |-> last \div c.latent_channels]

\* The end of Encoder.forward: conv_out(h) plus the channel-averaged h
EncoderOut(enc, h) ==
    TensorAdd(Forward(enc.conv_out, h),
              GroupMean(h, enc.out_shortcut_average_group_size))

\* Encoder.forward on one batch element's shape
EncoderForward(enc, s) ==
    EncoderOut(enc, ForEachBlock(enc.down_blocks, Forward(enc.conv_in, s)))

\* One iteration of the loop of Decoder.__init__: up_block_list of stage i
DecoderStage(c, i) ==
    LET layers == StageLayers(c, i)
        n == c.layers_per_block[i]
        up == DCUpBlock2dInit(c.block_out_channels[i + 1], c.block_out_channels[i],
                              c.upsample_block_type = "interpolate", TRUE)
    IN  IF ~layers.ok THEN layers
        ELSE IF i < NumBlocks(c) /\ n > 0
             THEN Stack(TRUE, "", <<up.m>> \o layers.blocks)
             ELSE layers

\* The loop of Decoder.__init__, which visits the stages from the last to
\* the first and inserts each at the front: self.up_blocks for stages 1..i
RECURSIVE DecoderStages(_, _)
DecoderStages(c, i) ==
    IF i < 1 THEN Stack(TRUE, "", <<>>)
    ELSE LET st == DecoderStage(c, i)
             rest == DecoderStages(c, i - 1)
         IN  IF ~st.ok THEN st
             ELSE IF ~rest.ok THEN rest
             ELSE Stack(TRUE, "", rest.blocks \o <<st.blocks>>)

\* channels = block_out_channels[0] if layers_per_block[0] > 0 else block_out_channels[1]
DecoderOutChannels(c) ==
    IF c.layers_per_block[1] > 0 THEN c.block_out_channels[1] ELSE c.block_out_channels[2]

\* Decoder.__init__ (in_shortcut = True, the default AutoencoderDC uses)
DecoderInit(c) ==
    LET st == DecoderStages(c, NumBlocks(c))
        last == c.block_out_channels[NumBlocks(c)]
        channels == DecoderOutChannels(c)
        failed(e) == [ok |-> FALSE, err |-> e, conv_in |-> NoModule, up_blocks |-> <<>>,
                      norm_out |-> 0, conv_out |-> NoModule, in_shortcut_repeats |-> 0]
    IN  IF ~st.ok THEN failed(st.err)
        ELSE IF c.layers_per_block[1] = 0 /\ NumBlocks(c) < 2 THEN failed("IndexError")
        ELSE [ok |-> TRUE, err |-> "",
              conv_in |-> Conv2d(c.latent_channels, last, 1),
              up_blocks |-> st.blocks,
              norm_out |-> channels,
              conv_out |-> IF c.layers_per_block[1] > 0
                           THEN Conv2d(channels, c.in_channels, 1)
                           ELSE DCUpBlock2dInit(channels, c.in_channels,
                                    c.upsample_block_type = "interpolate", FALSE).m,
              in_shortcut_repeats |-> last \div c.latent_channels]

\* reversed(seq)
Reversed(seq) == [k \in 1..Len(seq) |-> seq[Len(seq) + 1 - k]]

\* Decoder.forward on one batch element's shape
DecoderForward(dec, s) ==
    LET h0 == TensorAdd(Forward(dec.conv_in, s),
                        RepeatInterleave(s, dec.in_shortcut_repeats))
        h1 == ForEachBlock(Reversed(dec.up_blocks), h0)
    IN  Forward(dec.conv_out, RMSNormForward(dec.norm_out, h1))

\* One step of a forward pass: the attribute applied and, for a module of
\* a stage group, the module
Step(name, m) == [name |-> name, m |-> m]

\* The steps of one stage group: the modules of the nn.Sequential, in order
StageSteps(blocks) == [k \in 1..Len(blocks) |-> Step("up_blocks", blocks[k])]

\* for up_block in groups: the steps of the groups, one group after another
RECURSIVE GroupSteps(_)
GroupSteps(groups) ==
    IF groups = <<>> THEN <<>>
    ELSE StageSteps(Head(groups)) \o GroupSteps(Tail(groups))

\* The steps Decoder.forward applies, in order, when none of them raises
DecoderForwardSteps(dec) ==
    <<Step("conv_in", dec.conv_in), Step("in_shortcut", NoModule)>>
    \o GroupSteps(Reversed(dec.up_blocks))
    \o <<Step("norm_out", NoModule), Step("conv_act", NoModule),
         Step("conv_out", dec.conv_out)>>

-----------------------------------------------------------------------------
(* Tensors with contents, and the outcome of a call                         *)

Tensor(b, c, h, w, data) == [B |-> b, C |-> c, H |-> h, W |-> w, data |-> data]

NoTensor == Tensor(0, 0, 0, 0, <<>>)

ShapeOf(t) == Ok(t.C, t.H, t.W)

\* The outcome of a call: the returned tensor or the exception raised, and
\* the per-sample calls it made, in order
Outcome(ok, err, t, calls) == [ok |-> ok, err |-> err, t |-> t, calls |-> calls]

Call(fn, b, path) == [fn |-> fn, B |-> b, path |-> path]

\* A learned map `name` with shape function result s applied to tensor t:
\* every batch element is mapped on its own
Apply(name, s, t) ==
    IF s.ok
    THEN Outcome(TRUE, "", Tensor(t.B, s.C, s.H, s.W,
                                  [i \in 1..t.B |-> Append(t.data[i], name)]), <<>>)
    ELSE Outcome(FALSE, s.err, NoTensor, <<>>)

\* A split that yields the batch elements last to first
Split1Reversed(t) ==
    [i \in 1..t.B |-> Tensor(1, t.C, t.H, t.W, <<t.data[t.B + 1 - i]>>)]

\* t.split(1): the batch elements, in order, each a tensor of batch size 1
Split1(t) == [i \in 1..t.B |-> Tensor(1, t.C, t.H, t.W, <<t.data[i]>>)]

\* torch.cat(ts) along the batch axis (ts not empty, all of one shape)
RECURSIVE Cat(_)
Cat(ts) ==
    IF Len(ts) = 1 THEN ts[1]
    ELSE LET r == Cat(Tail(ts))
         IN  Tensor(ts[1].B + r.B, ts[1].C, ts[1].H, ts[1].W, ts[1].data \o r.data)

-----------------------------------------------------------------------------
(* AutoencoderDC.  self is the record of the instance's attributes.         *)

\* The methods the class defines
Methods == {"enable_tiling", "disable_tiling", "enable_slicing", "disable_slicing",
            "_encode", "encode", "_decode", "decode", "forward"}

\* self.spatial_compression_ratio
RECURSIVE Pow2(_)
Pow2(n) == IF n <= 0 THEN 1 ELSE 2 * Pow2(n - 1)

SpatialCompressionRatio(c) == Pow2(NumBlocks(c) - 1)

\* The instance after AutoencoderDC.__init__ and the mutators so far
Self ==
    [encoder |-> EncoderInit(cfg),
     decoder |-> DecoderInit(cfg),
     spatial_compression_ratio |-> SpatialCompressionRatio(cfg),
     temporal_compression_ratio |-> 1,
     use_slicing |-> use_slicing,
     use_tiling |-> use_tiling,
     tile_sample_min_height |-> tile_sample_min_height,
     tile_sample_min_width |-> tile_sample_min_width,
     tile_sample_stride_height |-> tile_sample_stride_height,
     tile_sample_stride_width |-> tile_sample_stride_width]

\* Whether self.<name> resolves: an instance attribute or a method of the class
HasAttr(self, name) == name \in DOMAIN self \/ name \in Methods

AttributeError(path) == Outcome(FALSE, "AttributeError", NoTensor, path)

\* self.<name>(x, return_dict=False)[0] for a tiled method: the class
\* defines none, so the lookup raises; a class that provided one would return
\* a tensor of the shape `shape`, which the tiling contract fixes
TiledCall(self, name, fn, shape, x) ==
    IF HasAttr(self, name)
    THEN [Apply(name, shape, x) EXCEPT !.calls = <<Call(fn, x.B, "tiled")>>]
    ELSE AttributeError(<<Call(fn, x.B, "tiled")>>)

\* The condition a tiling check would have with >= in place of >
EncodeConditionInclusive(self, x) ==
    self.use_tiling /\ (x.W >= self.tile_sample_min_width
                        \/ x.H >= self.tile_sample_min_height)

\* The condition of AutoencoderDC._encode
EncodeCondition(self, x) ==
    self.use_tiling /\ (x.W > self.tile_sample_min_width
                        \/ x.H > self.tile_sample_min_height)

\* AutoencoderDC._encode
Encode1(self, x) ==
    IF EncodeCondition(self, x)
    THEN TiledCall(self, "tiled_encode", "_encode",
                   Ok(cfg.latent_channels, x.H \div self.spatial_compression_ratio,
                      x.W \div self.spatial_compression_ratio), x)
    ELSE LET r == Apply("encoder", EncoderForward(self.encoder, ShapeOf(x)), x)
         IN  [r EXCEPT !.calls = <<Call("_encode", x.B, "direct")>>]

\* One more result r appended to the results acc of a list comprehension
Collect(acc, r) ==
    IF ~r.ok THEN [ok |-> FALSE, err |-> r.err, ts |-> acc.ts,
                   calls |-> acc.calls \o r.calls]
    ELSE [ok |-> TRUE, err |-> "", ts |-> Append(acc.ts, r.t),
          calls |-> acc.calls \o r.calls]

\* [self._encode(x_slice) for x_slice in slices]: the results so far,
\* stopping at the first call that raises
RECURSIVE EncodeSlices(_, _, _)
EncodeSlices(self, slices, acc) ==
    IF slices = <<>> \/ ~acc.ok THEN acc
    ELSE EncodeSlices(self, Tail(slices), Collect(acc, Encode1(self, Head(slices))))

NoSlices == [ok |-> TRUE, err |-> "", ts |-> <<>>, calls |-> <<>>]

\* torch.cat(slices) of the results m of a list comprehension
CatSlices(m) ==
    IF m.ok THEN Outcome(TRUE, "", Cat(m.ts), m.calls)
    ELSE Outcome(FALSE, m.err, NoTensor, m.calls)

\* AutoencoderDC.encode
encode(self, x) ==
    IF self.use_slicing /\ x.B > 1
    THEN CatSlices(EncodeSlices(self, Split1(x), NoSlices))
    ELSE Encode1(self, x)

\* getattr(self, name): [ok, v]
GetAttr(self, name) ==
    IF name \in DOMAIN self THEN [ok |-> TRUE, v |-> self[name]]
    ELSE [ok |-> FALSE, v |-> 0]

\* The condition of AutoencoderDC._decode,
\*   self.use_tiling and (width > self.tile_latent_min_width
\*                        or height > self.tile_latent_min_height):
\* `a and (b or c)` evaluates b only when a is true, and c only when b is
\* false; reading an attribute the instance does not have raises
DecodeCondition(self, z) ==
    LET minw == GetAttr(self, "tile_latent_min_width")
        minh == GetAttr(self, "tile_latent_min_height")
    IN  IF ~self.use_tiling THEN "false"
        ELSE IF ~minw.ok THEN "raise"
        ELSE IF z.W > minw.v THEN "true"
        ELSE IF ~minh.ok THEN "raise"
        ELSE IF z.H > minh.v THEN "true"
        ELSE "false"

\* AutoencoderDC._decode
Decode1(self, z) ==
    CASE DecodeCondition(self, z) = "raise" ->
            AttributeError(<<Call("_decode", z.B, "raise")>>)
      [] DecodeCondition(self, z) = "true" ->
            TiledCall(self, "tiled_decode", "_decode",
                      Ok(cfg.in_channels, z.H * self.spatial_compression_ratio,
                         z.W * self.spatial_compression_ratio), z)
      [] OTHER ->
            [Apply("decoder", DecoderForward(self.decoder, ShapeOf(z)), z)
                EXCEPT !.calls = <<Call("_decode", z.B, "direct")>>]

\* self._decode(z_slice).sample: _decode returns a torch.Tensor, which has
\* no attribute `sample`
Sample(r) ==
    IF ~r.ok THEN r
    ELSE Outcome(FALSE, "AttributeError", NoTensor, r.calls)

\* self._decode(z_slice).sample
DecodeSample(self, z) == Sample(Decode1(self, z))

\* [self._decode(z_slice).sample for z_slice in slices]
RECURSIVE DecodeSlices(_, _, _)
DecodeSlices(self, slices, acc) ==
    IF slices = <<>> \/ ~acc.ok THEN acc
    ELSE DecodeSlices(self, Tail(slices), Collect(acc, DecodeSample(self, Head(slices))))

\* AutoencoderDC.decode
decode(self, z) ==
    IF self.use_slicing /\ z.B > 1
    THEN CatSlices(DecodeSlices(self, Split1(z), NoSlices))
    ELSE Decode1(self, z)

\* (decoded, torch.tensor(0), {}), or the exception encode or decode raised
ForwardResult(encoded, decoded) ==
    IF ~encoded.ok
    THEN [ok |-> FALSE, err |-> encoded.err, t |-> NoTensor,
          calls |-> encoded.calls, loss |-> 0, side |-> {}]
    ELSE IF ~decoded.ok
    THEN [ok |-> FALSE, err |-> decoded.err, t |-> NoTensor,
          calls |-> encoded.calls \o decoded.calls, loss |-> 0, side |-> {}]
    ELSE [ok |-> TRUE, err |-> "", t |-> decoded.t,
          calls |-> encoded.calls \o decoded.calls, loss |-> 0, side |-> {}]

\* decoded = self.decode(encoded); return decoded, torch.tensor(0), {}
ForwardDecode(self, encoded) == ForwardResult(encoded, decode(self, encoded.t))

\* AutoencoderDC.forward
forward(self, sample) == ForwardDecode(self, encode(self, sample))

\* a or b, for an optional int a: None and 0 are falsy
PyOr(a, b) == IF a = None \/ a = 0 THEN b ELSE a

-----------------------------------------------------------------------------
(* The attention processor *)

\* The switch with the boundary on the linear side
UseLinearAttentionInclusive(height, width, attention_head_dim) ==
    height * width >= attention_head_dim

\* height * width > attn.attention_head_dim
UseLinearAttention(height, width, attention_head_dim) ==
    height * width > attention_head_dim

\* The precision of a tensor, or the exception of the operation that was to
\* produce it; products are the precisions of the matrix products computed
\* on the way and normalized the precision of the division, in order
Typed(dtype, products, normalized) ==
    [ok |-> TRUE, err |-> "", dtype |-> dtype, products |-> products,
     normalized |-> normalized]

TypeError(products, normalized) ==
    [ok |-> FALSE, err |-> "RuntimeError", dtype |-> "none", products |-> products,
     normalized |-> normalized]

\* The precision of torch.matmul(a, b): the operands must have one precision
MatmulOk(a, b) == a = b

\* apply_linear_attention(query, key, value) on the operands' precisions:
\* scores = value @ key^T, hidden_states = scores @ query, the cast to
\* float32 and the division
apply_linear_attention(query, key, value) ==
    IF ~MatmulOk(value, key) THEN TypeError(<<>>, <<>>)
    ELSE IF ~MatmulOk(value, query) THEN TypeError(<<value>>, <<>>)
    ELSE Typed("float32", <<value, value>>, <<"float32">>)

\* apply_quadratic_attention(query, key, value): scores = key^T @ query, the
\* cast of the scores to float32, their division by their sum, and
\* value @ scores
apply_quadratic_attention(query, key, value) ==
    IF ~MatmulOk(key, query) THEN TypeError(<<>>, <<>>)
    ELSE IF ~MatmulOk(value, "float32") THEN TypeError(<<key>>, <<"float32">>)
    ELSE Typed("float32", <<key, "float32">>, <<"float32">>)

\* The casts and the formula of the processor, in order
AttnSteps(use_linear_attention) ==
    IF use_linear_attention
    THEN <<"to_float32", "apply_linear_attention", "to_original_dtype">>
    ELSE <<"apply_quadratic_attention">>

\* The attention core on a block input of precision original_dtype: the
\* upcast of query, key and value on the linear path, the formula, and the
\* cast back on the linear path
AttnCore(use_linear_attention, original_dtype) ==
    IF use_linear_attention
    THEN [apply_linear_attention("float32", "float32", "float32")
             EXCEPT !.dtype = IF @ = "none" THEN @ ELSE original_dtype]
    ELSE apply_quadratic_attention(original_dtype, original_dtype, original_dtype)

\* attn.to_out, a Linear layer with weights of the block's precision, on the
\* core's result r
ToOut(r, original_dtype) ==
    IF ~r.ok THEN r
    ELSE IF r.dtype # original_dtype THEN TypeError(r.products, r.normalized)
    ELSE r

\* SanaMultiscaleAttnProcessor2_0.__call__ on a block with head dimension d
\* and weights of the input's precision: the branch taken, in order the
\* precision casts and the attention formula the call applies, the core's
\* result, and the outcome of the call
AttnProcessorCall(d, x, original_dtype) ==
    [use_linear_attention |-> UseLinearAttention(x.H, x.W, d),
     steps |-> AttnSteps(UseLinearAttention(x.H, x.W, d)),
     core |-> AttnCore(UseLinearAttention(x.H, x.W, d), original_dtype),
     ok |-> ToOut(AttnCore(UseLinearAttention(x.H, x.W, d), original_dtype),
                  original_dtype).ok,
     err |-> ToOut(AttnCore(UseLinearAttention(x.H, x.W, d), original_dtype),
                   original_dtype).err]

-----------------------------------------------------------------------------
(* Inputs *)

TileArgs == {None, 0, 4}        \* arguments of enable_tiling
Sides == {4, 8}                 \* heights and widths of images
LatentSides == {2, 4}           \* heights and widths of latents
ShapeSides == {4, 8, 16}        \* the same for the Encoder on its own
ShapeLatentSides == {2, 4, 8}   \* the same for the Decoder on its own
AttnSides == 1..3               \* heights and widths of attention inputs
HeadDims == {1, 2, 4, 8}        \* attention_head_dim of an attention block

Batches == 1..MaxBatch

\* A batch of b samples named "1", "2", ...
Input(b, c, h, w) == Tensor(b, c, h, w, [i \in 1..b |-> <<ToString(i)>>])

\* block_out_channels of s stages: doubling, constant, and one whose second
\* stage is no multiple of the first
ChannelPlans(s) ==
    {[i \in 1..s |-> 8 * Pow2(i - 1)],
     [i \in 1..s |-> 8],
     [i \in 1..s |-> IF i = 1 THEN 8 ELSE 12 * Pow2(i - 2)]}

\* The constructor arguments; a block_type given as one string stands for
\* (block_type,) * num_blocks
Config(boc, layers, bt, down, up, d) ==
    [in_channels |-> 3, latent_channels |-> 4, attention_head_dim |-> d,
     block_type |-> [i \in 1..Len(boc) |-> bt],
     block_out_channels |-> boc, layers_per_block |-> layers,
     downsample_block_type |-> down, upsample_block_type |-> up]

Configs(stages, blockTypes, downs, ups, dims) ==
    UNION {{Config(boc, layers, bt, down, up, d) :
              boc \in ChannelPlans(s), layers \in [1..s -> 0..MaxLayers],
              bt \in blockTypes, down \in downs, up \in ups, d \in dims} :
           s \in stages}

\* Configurations of the Encoder and Decoder on their own
ShapeConfigs ==
    Configs(1..MaxStages, {"ResBlock", "EfficientViTBlock"},
            {"pixel_unshuffle", "conv"}, {"pixel_shuffle", "interpolate"}, {4})

\* Configurations of the whole autoencoder
MachineConfigs ==
    Configs({2}, {"ResBlock"}, {"pixel_unshuffle"}, {"pixel_shuffle"}, {4})

\* Configurations of one attention block
AttnConfigs ==
    Configs({1}, {"EfficientViTBlock"}, {"pixel_unshuffle"}, {"pixel_shuffle"}, HeadDims)

-----------------------------------------------------------------------------
(* The state machine *)

NoRet ==
    [op |-> "init", x |-> NoTensor, ok |-> TRUE, err |-> "", t |-> NoTensor,
     calls |-> <<>>, loss |-> 0, side |-> {}, use_linear_attention |-> FALSE,
     steps |-> <<>>, arg |-> <<>>, out |-> <<>>]

\* The call `op` on x with outcome r
Returned(op, x, r) ==
    [NoRet EXCEPT !.op = op, !.x = x, !.ok = r.ok, !.err = r.err, !.t = r.t,
                  !.calls = r.calls]

\* The call forward(x) with outcome r
ReturnedForward(x, r) ==
    [NoRet EXCEPT !.op = "forward", !.x = x, !.ok = r.ok, !.err = r.err, !.t = r.t,
                  !.calls = r.calls, !.loss = r.loss, !.side = r.side]

\* AutoencoderDC.__init__ returned
InitFlags ==
    /\ use_slicing = FALSE
    /\ use_tiling = FALSE
    /\ tile_sample_min_height = DefaultTileSampleMin
    /\ tile_sample_min_width = DefaultTileSampleMin
    /\ tile_sample_stride_height = DefaultTileSampleStride
    /\ tile_sample_stride_width = DefaultTileSampleStride
    /\ ret = NoRet
    /\ history = [slicing |-> "none", tiling |-> "none"]

Init ==
    /\ cfg \in {c \in MachineConfigs : EncoderInit(c).ok /\ DecoderInit(c).ok}
    /\ InitFlags

enable_tiling(min_height, min_width, stride_height, stride_width) ==
    /\ use_tiling' = TRUE
    /\ tile_sample_min_height' = PyOr(min_height, tile_sample_min_height)
    /\ tile_sample_min_width' = PyOr(min_width, tile_sample_min_width)
    /\ tile_sample_stride_height' = PyOr(stride_height, tile_sample_stride_height)
    /\ tile_sample_stride_width' = PyOr(stride_width, tile_sample_stride_width)
    /\ ret' = [NoRet EXCEPT !.op = "enable_tiling"]
    /\ history' = [history EXCEPT !.tiling = "enable_tiling"]
    /\ UNCHANGED <<cfg, use_slicing>>

\* A disable_tiling that also restores the default tile sizes
disable_tiling_resetting ==
    /\ use_tiling' = FALSE
    /\ tile_sample_min_height' = DefaultTileSampleMin
    /\ tile_sample_min_width' = DefaultTileSampleMin
    /\ ret' = [NoRet EXCEPT !.op = "disable_tiling"]
    /\ history' = [history EXCEPT !.tiling = "disable_tiling"]
    /\ UNCHANGED <<cfg, use_slicing, tile_sample_stride_height, tile_sample_stride_width>>

disable_tiling ==
    /\ use_tiling' = FALSE
    /\ ret' = [NoRet EXCEPT !.op = "disable_tiling"]
    /\ history' = [history EXCEPT !.tiling = "disable_tiling"]
    /\ UNCHANGED <<cfg, use_slicing, tileParams>>

enable_slicing ==
    /\ use_slicing' = TRUE
    /\ ret' = [NoRet EXCEPT !.op = "enable_slicing"]
    /\ history' = [history EXCEPT !.slicing = "enable_slicing"]
    /\ UNCHANGED <<cfg, use_tiling, tileParams>>

\* A disable_slicing that sets the flag as enable_slicing does
disable_slicing_enabling ==
    /\ use_slicing' = TRUE
    /\ ret' = [NoRet EXCEPT !.op = "disable_slicing"]
    /\ history' = [history EXCEPT !.slicing = "disable_slicing"]
    /\ UNCHANGED <<cfg, use_tiling, tileParams>>

disable_slicing ==
    /\ use_slicing' = FALSE
    /\ ret' = [NoRet EXCEPT !.op = "disable_slicing"]
    /\ history' = [history EXCEPT !.slicing = "disable_slicing"]
    /\ UNCHANGED <<cfg, use_tiling, tileParams>>

EncodeCall(x) ==
    /\ ret' = Returned("encode", x, encode(Self, x))
    /\ UNCHANGED <<cfg, flags, tileParams, history>>

DecodeCall(z) ==
    /\ ret' = Returned("decode", z, decode(Self, z))
    /\ UNCHANGED <<cfg, flags, tileParams, history>>

ForwardCall(x) ==
    /\ ret' = ReturnedForward(x, forward(Self, x))
    /\ UNCHANGED <<cfg, flags, tileParams, history>>

Images == {Input(b, cfg.in_channels, h, w) : b \in Batches, h \in Sides, w \in Sides}

Latents == {Input(b, cfg.latent_channels, h, w) :
              b \in Batches, h \in LatentSides, w \in LatentSides}

Next ==
    \/ \E a \in TileArgs, b \in TileArgs, c \in TileArgs, d \in TileArgs :
          enable_tiling(a, b, c, d)
    \/ disable_tiling
    \/ enable_slicing
    \/ disable_slicing
    \/ \E x \in Images : EncodeCall(x)
    \/ \E z \in Latents : DecodeCall(z)
    \/ \E x \in Images : ForwardCall(x)

Spec == Init /\ [][Next]_vars

-----------------------------------------------------------------------------
(* Encoder.forward and Decoder.forward on their own, over the stage        *)
(* configurations Encoder.__init__ accepts                                  *)

InitShape ==
    /\ cfg \in {c \in ShapeConfigs : EncoderInit(c).ok}
    /\ InitFlags

EncoderCall(x) ==
    /\ ret' = Returned("Encoder.forward", x,
                       Apply("encoder", EncoderForward(EncoderInit(cfg), ShapeOf(x)), x))
    /\ UNCHANGED <<cfg, flags, tileParams, history>>

DecoderCall(z) ==
    /\ DecoderInit(cfg).ok
    /\ ret' = [Returned("Decoder.forward", z,
                        Apply("decoder", DecoderForward(DecoderInit(cfg), ShapeOf(z)), z))
                  EXCEPT !.out = DecoderForwardSteps(DecoderInit(cfg))]
    /\ UNCHANGED <<cfg, flags, tileParams, history>>

ShapeImages ==
    {Input(b, cfg.in_channels, h, w) : b \in Batches, h \in ShapeSides, w \in ShapeSides}

ShapeLatents ==
    {Input(b, cfg.latent_channels, h, w) :
        b \in Batches, h \in ShapeLatentSides, w \in ShapeLatentSides}

NextShape ==
    \/ \E x \in ShapeImages : EncoderCall(x)
    \/ \E z \in ShapeLatents : DecoderCall(z)

SpecShape == InitShape /\ [][NextShape]_vars

-----------------------------------------------------------------------------
(* One multiscale attention block called on inputs of several sizes        *)

\* The attention call on x with outcome r
ReturnedAttn(x, original_dtype, r) ==
    [NoRet EXCEPT !.op = "attn", !.x = x, !.arg = original_dtype,
                  !.ok = r.ok, !.err = r.err, !.out = r.core,
                  !.use_linear_attention = r.use_linear_attention, !.steps = r.steps]

InitAttn ==
    /\ cfg \in AttnConfigs
    /\ InitFlags

AttnCall(x, original_dtype) ==
    /\ ret' = ReturnedAttn(x, original_dtype,
                           AttnProcessorCall(cfg.attention_head_dim, x, original_dtype))
    /\ UNCHANGED <<cfg, flags, tileParams, history>>

AttnInputs ==
    {Input(b, cfg.block_out_channels[1], h, w) :
        b \in Batches, h \in AttnSides, w \in AttnSides}

\* Working precisions of a block and its input
DTypes == {"float16", "bfloat16", "float32"}

NextAttn == \E x \in AttnInputs, original_dtype \in DTypes : AttnCall(x, original_dtype)

SpecAttn == InitAttn /\ [][NextAttn]_vars

-----------------------------------------------------------------------------
(* The selectors and ResBlock.__init__ called on names                      *)

\* Arguments of get_activation
ActFnArgs ==
    {<<"s", "i", "l", "u">>, <<"S", "i", "L", "U">>, <<"S", "I", "L", "U">>,
     <<"s", "w", "i", "s", "h">>, <<"S", "w", "i", "s", "h">>,
     <<"m", "i", "s", "h">>, <<"M", "I", "S", "H">>,
     <<"g", "e", "l", "u">>, <<"G", "E", "L", "U">>,
     <<"r", "e", "l", "u">>, <<"R", "e", "L", "U">>,
     <<"r", "e", "l", "u", "6">>, <<"t", "a", "n", "h">>, <<"s", "i", "l">>,
     <<"s", "i", "l", "u", " ">>, <<>>}

\* Arguments of get_normalization
NormTypeArgs ==
    {"rms_norm", "layer_norm", "batch_norm", "group_norm", "RMS_NORM", "rmsnorm", ""}

\* The selector call `op` on `arg` with outcome r
ReturnedSelect(op, arg, r) ==
    [NoRet EXCEPT !.op = op, !.arg = arg, !.ok = r.ok, !.err = r.err, !.out = r.op]

\* The constructor call `op` on `arg` with outcome r
ReturnedBuild(op, arg, r) ==
    [NoRet EXCEPT !.op = op, !.arg = arg, !.ok = r.ok, !.err = r.err, !.out = r.m]

InitSelect ==
    /\ cfg \in MachineConfigs
    /\ InitFlags

GetActivationCall(act_fn) ==
    /\ ret' = ReturnedSelect("get_activation", act_fn, get_activation(act_fn))
    /\ UNCHANGED <<cfg, flags, tileParams, history>>

GetNormalizationCall(norm_type) ==
    /\ ret' = ReturnedSelect("get_normalization", norm_type, get_normalization(norm_type))
    /\ UNCHANGED <<cfg, flags, tileParams, history>>

\* ResBlock(out_channel, out_channel, norm_type, act_fn) for the first stage
ResBlockNew(norm_type, act_fn) ==
    /\ ret' = ReturnedBuild("ResBlock.__init__", <<norm_type, act_fn>>,
                            ResBlockInit(cfg.block_out_channels[1],
                                         cfg.block_out_channels[1], norm_type, act_fn))
    /\ UNCHANGED <<cfg, flags, tileParams, history>>

NextSelect ==
    \/ \E act_fn \in ActFnArgs : GetActivationCall(act_fn)
    \/ \E norm_type \in NormTypeArgs : GetNormalizationCall(norm_type)
    \/ \E norm_type \in NormTypeArgs, act_fn \in ActFnArgs : ResBlockNew(norm_type, act_fn)

SpecSelect == InitSelect /\ [][NextSelect]_vars

-----------------------------------------------------------------------------
(* Encoder.__init__ and Decoder.__init__ on arbitrary arguments, and the    *)
(* forward passes of the modules they build                                 *)

\* block_out_channels of s stages: those of ChannelPlans, and one whose
\* later stages are no multiple of 4
BuildChannelPlans(s) ==
    ChannelPlans(s) \cup {[i \in 1..s |-> IF i = 1 THEN 8 ELSE 10]}

\* block_type tuples of s stages: one tag throughout, or a tag get_block
\* does not know at one stage
BlockTypePlans(s) ==
    {[i \in 1..s |-> t] : t \in {"ResBlock", "EfficientViTBlock"}}
    \cup {[i \in 1..s |-> IF i = j THEN "MBConv" ELSE "ResBlock"] : j \in 1..s}

\* <<downsample_block_type, upsample_block_type>>
BlockModes ==
    {<<"pixel_unshuffle", "pixel_shuffle">>, <<"conv", "interpolate">>,
     <<"avg_pool", "bicubic">>}

BuildConfigs ==
    UNION {{[Config(boc, layers, "ResBlock", mode[1], mode[2], 4)
                EXCEPT !.block_type = bts] :
              boc \in BuildChannelPlans(s), layers \in [1..s -> 0..MaxLayers],
              bts \in BlockTypePlans(s), mode \in BlockModes} :
           s \in 1..MaxStages}

InitBuild ==
    /\ cfg \in BuildConfigs
    /\ InitFlags

\* Encoder(**cfg)
EncoderNew ==
    /\ ret' = [NoRet EXCEPT !.op = "Encoder.__init__", !.ok = EncoderInit(cfg).ok,
                            !.err = EncoderInit(cfg).err, !.out = EncoderInit(cfg)]
    /\ UNCHANGED <<cfg, flags, tileParams, history>>

\* Decoder(**cfg)
DecoderNew ==
    /\ ret' = [NoRet EXCEPT !.op = "Decoder.__init__", !.ok = DecoderInit(cfg).ok,
                            !.err = DecoderInit(cfg).err, !.out = DecoderInit(cfg)]
    /\ UNCHANGED <<cfg, flags, tileParams, history>>

BuildImages == {Input(b, cfg.in_channels, h, h) : b \in Batches, h \in ShapeSides}

BuildLatents == {Input(b, cfg.latent_channels, h, h) : b \in Batches, h \in ShapeLatentSides}

NextBuild ==
    \/ EncoderNew
    \/ DecoderNew
    \/ \E x \in BuildImages : EncoderInit(cfg).ok /\ EncoderCall(x)
    \/ \E z \in BuildLatents : DecoderCall(z)

SpecBuild == InitBuild /\ [][NextBuild]_vars

-----------------------------------------------------------------------------
(* One DCDownBlock2d with its shortcut, called on constant tensors: the     *)
(* block Encoder.__init__ puts between the two stages of cfg                *)

DownInChannels == {2, 3, 4, 8}

DownOutChannels == {4, 8, 12, 16}

DownSides == {2, 4}

DownValues == {-3, 0, 1, 5}

DownConfigs ==
    {Config(<<cin, cout>>, <<1, 1>>, "ResBlock", down, "pixel_shuffle", 4) :
        cin \in DownInChannels, cout \in DownOutChannels,
        down \in {"pixel_unshuffle", "conv"}}

\* DCDownBlock2d(block_out_channels[0], block_out_channels[1], ..., shortcut=True)
DownBlock(c) ==
    DCDownBlock2dInit(c.block_out_channels[1], c.block_out_channels[2],
                      c.downsample_block_type = "pixel_unshuffle", TRUE)

\* A batch whose elements all equal k
ConstantInput(b, c, h, w, k) ==
    Tensor(b, c, h, w,
           [i \in 1..b |-> [ch \in 0..(c - 1) |-> [y \in 0..(h - 1) |-> [x \in 0..(w - 1) |-> k]]]])

\* The shortcut branch on every batch element of x
ShortcutBranch(m, x) ==
    LET y == [i \in 1..x.B |-> DCDownBlock2dShortcut(m, Array(ShapeOf(x), x.data[i]))]
    IN  IF y[1].s.ok
        THEN Tensor(x.B, y[1].s.C, y[1].s.H, y[1].s.W, [i \in 1..x.B |-> y[i].v])
        ELSE NoTensor

InitDown ==
    /\ cfg \in {c \in DownConfigs : DownBlock(c).ok}
    /\ InitFlags

\* DCDownBlock2d.forward(x): the outcome, the shape returned (out) and the
\* shortcut branch y (t)
DownBlockCall(x, k) ==
    /\ ret' = [NoRet EXCEPT !.op = "DCDownBlock2d.forward", !.x = x, !.arg = k,
                  !.ok = DCDownBlock2dForward(DownBlock(cfg).m, ShapeOf(x)).ok,
                  !.err = DCDownBlock2dForward(DownBlock(cfg).m, ShapeOf(x)).err,
                  !.out = DCDownBlock2dForward(DownBlock(cfg).m, ShapeOf(x)),
                  !.t = ShortcutBranch(DownBlock(cfg).m, x)]
    /\ UNCHANGED <<cfg, flags, tileParams, history>>

NextDown ==
    \E b \in Batches, h \in DownSides, w \in DownSides, k \in DownValues :
        DownBlockCall(ConstantInput(b, cfg.block_out_channels[1], h, w, k), k)

SpecDown == InitDown /\ [][NextDown]_vars

-----------------------------------------------------------------------------
(* Properties *)

Stages == NumBlocks(cfg)

\* The spatial reduction the shape contract names: 2^(S-1)
Ratio == Pow2(Stages - 1)

SameShape(t, b, c, h, w) == t.B = b /\ t.C = c /\ t.H = h /\ t.W = w

\* Every stage has at least one layer
AllStagesHaveLayers == \A i \in 1..Stages : cfg.layers_per_block[i] >= 1

\* The divisibility requirements on the channel counts: a pixel-unshuffle
\* down block's out_channels is a multiple of 4, each shortcut's channel
\* counts divide, and the last stage's channels are a multiple of
\* latent_channels
ChannelsDivide ==
    /\ \A i \in 1..(Stages - 1) :
          /\ cfg.block_out_channels[i + 1] % 4 = 0
          /\ (cfg.block_out_channels[i] * 4) % cfg.block_out_channels[i + 1] = 0
    /\ cfg.block_out_channels[Stages] % cfg.latent_channels = 0

\* C1: every Encoder the constructor accepts, with S stages (zero-layer
\* stages included), maps an input (B, in_channels, H, W) with H and W
\* divisible by 2^(S-1) to (B, latent_channels, H/2^(S-1), W/2^(S-1)).
\* Stated for the channel counts that meet the divisibility requirements, so
\* that no violation rests on a channel count that does not divide.
C1_EncoderShapeContract ==
    (/\ ret.op = "Encoder.forward"
     /\ ChannelsDivide
     /\ ret.x.H % Ratio = 0
     /\ ret.x.W % Ratio = 0)
    => /\ ret.ok
       /\ SameShape(ret.t, ret.x.B, cfg.latent_channels,
                    ret.x.H \div Ratio, ret.x.W \div Ratio)

\* The i-th sample of the last call's argument, as a batch of one
SampleOfArg(i) == Tensor(1, ret.x.C, ret.x.H, ret.x.W, <<ret.x.data[i]>>)

\* encode of the i-th sample alone, through the unsliced path
SingleEncode(i) == encode([Self EXCEPT !.use_slicing = FALSE], SampleOfArg(i))

\* C2: with slicing enabled and a batch of N > 1, encode calls the per-sample
\* encoding once per batch element, in batch order, and returns the N
\* results concatenated in input order, equal to N single-sample unsliced
\* encode calls (the first sample that raises ends the call with its
\* exception); otherwise it makes one per-batch encoding of the whole input.
C2_EncodeSlicing ==
    ret.op = "encode" =>
        IF use_slicing /\ ret.x.B > 1
        THEN /\ ret.ok <=> \A i \in 1..ret.x.B : SingleEncode(i).ok
             /\ ret.ok =>
                  /\ Len(ret.calls) = ret.x.B
                  /\ \A i \in 1..ret.x.B :
                        /\ ret.calls[i].fn = "_encode"
                        /\ ret.calls[i].B = 1
                        /\ ret.t.data[i] = SingleEncode(i).t.data[1]
                        /\ SameShape(SingleEncode(i).t, 1, ret.t.C, ret.t.H, ret.t.W)
                  /\ ret.t.B = ret.x.B
                  /\ Len(ret.t.data) = ret.x.B
             /\ ~ret.ok =>
                  /\ ret.err = SingleEncode(1).err
                  /\ Len(ret.calls) = 1
        ELSE /\ Len(ret.calls) = 1
             /\ ret.calls[1].fn = "_encode"
             /\ ret.calls[1].B = ret.x.B
             /\ ret.ok => ret.t.B = ret.x.B

C2_Witness ==
    /\ ret.op = "encode"
    /\ use_slicing
    /\ ret.x.B > 1
    /\ ret.ok
    /\ Len(ret.calls) = ret.x.B
    /\ ret.t.data[ret.x.B] = <<ToString(ret.x.B), "encoder">>

\* decode of the i-th sample alone, through the unsliced path
SingleDecode(i) == decode([Self EXCEPT !.use_slicing = FALSE], SampleOfArg(i))

\* C3: with slicing enabled and a latent batch of N > 1, decode completes
\* without error and returns, in input order, the results of decoding each
\* sample alone through the unsliced path (whenever those succeed).
C3_DecodeSlicing ==
    (/\ ret.op = "decode"
     /\ use_slicing
     /\ ret.x.B > 1
     /\ \A i \in 1..ret.x.B : SingleDecode(i).ok)
    => /\ ret.ok
       /\ ret.t.B = ret.x.B
       /\ \A i \in 1..ret.x.B : ret.t.data[i] = SingleDecode(i).t.data[1]

\* C4: _encode takes the tiled path exactly when use_tiling holds and the
\* width exceeds tile_sample_min_width or the height exceeds
\* tile_sample_min_height; in every other case (both dimensions equal to the
\* minimum included) it returns the Encoder's output.
C4_EncodeTilingDecision ==
    ret.op = "encode" =>
        \A k \in 1..Len(ret.calls) :
           /\ ret.calls[k].path \in {"tiled", "direct"}
           /\ ret.calls[k].path = "tiled"
                 <=> (use_tiling /\ (ret.x.W > tile_sample_min_width
                                     \/ ret.x.H > tile_sample_min_height))
           /\ (ret.calls[k].path = "direct" /\ ret.ok) =>
                 /\ SameShape(ret.t, ret.x.B, EncoderForward(EncoderInit(cfg), ShapeOf(ret.x)).C,
                              EncoderForward(EncoderInit(cfg), ShapeOf(ret.x)).H,
                              EncoderForward(EncoderInit(cfg), ShapeOf(ret.x)).W)
                 /\ \A i \in 1..ret.x.B : ret.t.data[i] = Append(ret.x.data[i], "encoder")
           /\ (ret.calls[k].path = "direct" /\ ~ret.ok) =>
                 ~EncoderForward(EncoderInit(cfg), ShapeOf(ret.x)).ok

C4_Witness ==
    /\ ret.op = "encode"
    /\ use_tiling
    /\ ret.x.W = tile_sample_min_width
    /\ ret.x.H = tile_sample_min_height
    /\ ret.ok
    /\ ret.calls[1].path = "direct"

\* C5: after enable_tiling, decode of a latent whose height and width do
\* not exceed the configured minimum succeeds and returns the Decoder's
\* output.
C5_DecodeUnderTiling ==
    (/\ ret.op = "decode"
     /\ use_tiling
     /\ ~(use_slicing /\ ret.x.B > 1)
     /\ ret.x.H * Ratio <= tile_sample_min_height
     /\ ret.x.W * Ratio <= tile_sample_min_width
     /\ DecoderForward(DecoderInit(cfg), ShapeOf(ret.x)).ok)
    => /\ ret.ok
       /\ \A i \in 1..ret.x.B : ret.t.data[i] = Append(ret.x.data[i], "decoder")

\* C6: on a fresh instance both flags are false, and after any calls
\* use_slicing holds exactly when the most recent slicing call was
\* enable_slicing and use_tiling exactly when the most recent tiling call
\* was enable_tiling.
C6_FlagsFollowLastCall ==
    /\ use_slicing <=> history.slicing = "enable_slicing"
    /\ use_tiling <=> history.tiling = "enable_tiling"

C6_Witness ==
    /\ history.slicing = "disable_slicing"
    /\ history.tiling = "enable_tiling"
    /\ ~use_slicing
    /\ use_tiling
    /\ ret.op = "disable_slicing"

\* C7: enable_slicing and disable_slicing change nothing but use_slicing,
\* disable_tiling nothing but use_tiling, the four tiling parameters change
\* only in enable_tiling, and encode, decode and forward change neither flag
\* nor any parameter.
C7_Frame ==
    [][/\ ret'.op \in {"enable_slicing", "disable_slicing"}
            => UNCHANGED <<cfg, use_tiling, tileParams>>
       /\ ret'.op = "disable_tiling" => UNCHANGED <<cfg, use_slicing, tileParams>>
       /\ ret'.op = "enable_tiling" => UNCHANGED <<cfg, use_slicing>>
       /\ ret'.op \in {"encode", "decode", "forward"}
            => UNCHANGED <<cfg, flags, tileParams>>
       /\ tileParams' # tileParams => ret'.op = "enable_tiling"]_vars

C7_Witness ==
    /\ ret.op = "disable_tiling"
    /\ ~use_tiling
    /\ use_slicing
    /\ tile_sample_min_height = 4
    /\ tile_sample_stride_width = 4

\* The attention formulas among the steps of the last attention call
FormulasApplied ==
    {k \in 1..Len(ret.steps) :
        ret.steps[k] \in {"apply_linear_attention", "apply_quadratic_attention"}}

\* C8: a call on an H x W input of a block with attention_head_dim d takes
\* the linear formula exactly when H*W > d and the quadratic one exactly when
\* H*W <= d, whatever the batch size and channels, and applies exactly one
\* of the two.
C8_AttentionSwitch ==
    ret.op = "attn" =>
        /\ ret.use_linear_attention <=> ret.x.H * ret.x.W > cfg.attention_head_dim
        /\ Cardinality(FormulasApplied) = 1
        /\ \A k \in FormulasApplied :
              ret.steps[k] = IF ret.x.H * ret.x.W > cfg.attention_head_dim
                             THEN "apply_linear_attention"
                             ELSE "apply_quadratic_attention"

C8_Witness ==
    /\ ret.op = "attn"
    /\ ret.x.H * ret.x.W = cfg.attention_head_dim
    /\ cfg.attention_head_dim = 4
    /\ ~ret.use_linear_attention
    /\ ret.steps = <<"apply_quadratic_attention">>

\* C9: with at least one layer in every stage and channel counts meeting
\* the divisibility requirements, the Decoder maps (B, latent_channels, h, w)
\* to (B, in_channels, h*2^(S-1), w*2^(S-1)), and decoding an encoded image
\* gives the image's shape back.
C9_DecoderShape ==
    (AllStagesHaveLayers /\ ChannelsDivide) =>
        /\ ret.op = "Decoder.forward" =>
              /\ ret.ok
              /\ SameShape(ret.t, ret.x.B, cfg.in_channels,
                           ret.x.H * Ratio, ret.x.W * Ratio)
        /\ (ret.op = "Encoder.forward" /\ ret.x.H % Ratio = 0 /\ ret.x.W % Ratio = 0) =>
              /\ ret.ok
              /\ DecoderForward(DecoderInit(cfg), ShapeOf(ret.t))
                    = Ok(ret.x.C, ret.x.H, ret.x.W)

C9_Witness ==
    /\ cfg.block_out_channels = <<8, 16>>
    /\ cfg.layers_per_block = <<1, 1>>
    /\ ret.op = "Decoder.forward"
    /\ SameShape(ret.x, 1, 4, 8, 8)
    /\ SameShape(ret.t, 1, 3, 16, 16)

\* C10: in every flag state and for every batch size, forward(x) runs encode
\* and then decode on its result and returns (decode(encode(x)), 0, {})
\* (whenever the Encoder and the Decoder accept the shapes and the image
\* needs no tiling).
C10_ForwardPipeline ==
    (/\ ret.op = "forward"
     /\ ret.x.H <= tile_sample_min_height
     /\ ret.x.W <= tile_sample_min_width
     /\ EncoderForward(EncoderInit(cfg), ShapeOf(ret.x)).ok
     /\ DecoderForward(DecoderInit(cfg),
                       EncoderForward(EncoderInit(cfg), ShapeOf(ret.x))).ok)
    => /\ ret.ok
       /\ ret.t.B = ret.x.B
       /\ \A i \in 1..ret.x.B : ret.t.data[i] = ret.x.data[i] \o <<"encoder", "decoder">>
       /\ ret.loss = 0
       /\ ret.side = {}

\* The activation names the selector recognizes
RecognizedActivations ==
    {<<"s", "w", "i", "s", "h">>, <<"s", "i", "l", "u">>, <<"m", "i", "s", "h">>,
     <<"g", "e", "l", "u">>, <<"r", "e", "l", "u">>}

\* Two characters that are the same letter, in either case
SameLetter(a, b) ==
    a = b \/ \E k \in DOMAIN UpperCase : {a, b} = {UpperCase[k], LowerCase[k]}

\* The name n is a recognized activation name up to the case of its letters
IsActivationName(n) ==
    \E r \in RecognizedActivations :
        Len(n) = Len(r) /\ \A k \in 1..Len(n) : SameLetter(n[k], r[k])

IsNormalizationName(n) == n \in {"rms_norm", "layer_norm", "batch_norm"}

\* C11: get_activation returns an operator for swish, silu, mish, gelu and
\* relu in any case of the letters, get_normalization for rms_norm,
\* layer_norm and batch_norm; for every other name the selector raises
\* ValueError and returns nothing, and so does a ResBlock constructed with
\* such a name.
C11_Selectors ==
    /\ ret.op = "get_activation" =>
          IF IsActivationName(ret.arg)
          THEN ret.ok /\ ret.out # NoOperator
          ELSE ~ret.ok /\ ret.err = "ValueError" /\ ret.out = NoOperator
    /\ ret.op = "get_normalization" =>
          IF IsNormalizationName(ret.arg)
          THEN ret.ok /\ ret.out # NoOperator
          ELSE ~ret.ok /\ ret.err = "ValueError" /\ ret.out = NoOperator
    /\ ret.op = "ResBlock.__init__" =>
          IF IsNormalizationName(ret.arg[1]) /\ IsActivationName(ret.arg[2])
          THEN ret.ok /\ ret.out.kind = "ResBlock"
          ELSE ~ret.ok /\ ret.err = "ValueError" /\ ret.out = NoModule

C11_Witness ==
    /\ ret.op = "get_activation"
    /\ ret.arg = <<"S", "i", "L", "U">>
    /\ ret.ok
    /\ ret.out = "SiLU"

SupportedDownModes == {"pixel_unshuffle", "conv"}

SupportedUpModes == {"pixel_shuffle", "interpolate"}

\* C12: constructing an Encoder with a downsample_block_type, or a Decoder
\* with an upsample_block_type, that is not a supported mode string raises;
\* no module is built.  Stated for the configurations in which the
\* constructor builds a sampling block with the mode: two stages or more,
\* each with a layer.
C12_UnsupportedModeRaises ==
    (Stages >= 2 /\ AllStagesHaveLayers) =>
        /\ (/\ ret.op = "Encoder.__init__"
            /\ cfg.downsample_block_type \notin SupportedDownModes) => ~ret.ok
        /\ (/\ ret.op = "Decoder.__init__"
            /\ cfg.upsample_block_type \notin SupportedUpModes) => ~ret.ok

\* The divisibility requirements of the blocks an Encoder builds when every
\* stage has a layer: out_channels a multiple of 4 in pixel-unshuffle mode,
\* in_channels*4 a multiple of out_channels for each down block's shortcut,
\* and the last stage's channels a multiple of latent_channels
EncoderChannelsDivide ==
    /\ \A i \in 1..(Stages - 1) :
          /\ cfg.downsample_block_type = "pixel_unshuffle"
                => cfg.block_out_channels[i + 1] % 4 = 0
          /\ (cfg.block_out_channels[i] * 4) % cfg.block_out_channels[i + 1] = 0
    /\ cfg.block_out_channels[Stages] % cfg.latent_channels = 0

\* The same for a Decoder: out_channels*4 a multiple of in_channels for each
\* up block's shortcut, and the last stage's channels a multiple of
\* latent_channels
DecoderChannelsDivide ==
    /\ \A i \in 1..(Stages - 1) :
          (cfg.block_out_channels[i] * 4) % cfg.block_out_channels[i + 1] = 0
    /\ cfg.block_out_channels[Stages] % cfg.latent_channels = 0

\* C13: a channel configuration that violates a divisibility requirement
\* fails when the module is constructed.  Stated for the configurations in
\* which every stage has a layer, so that every block the requirements are
\* about is built.
C13_DivisibilityFailsAtConstruction ==
    AllStagesHaveLayers =>
        /\ (ret.op = "Encoder.__init__" /\ ~EncoderChannelsDivide) => ~ret.ok
        /\ (ret.op = "Decoder.__init__" /\ ~DecoderChannelsDivide) => ~ret.ok

\* C14: constructing an Encoder or Decoder in which the tag of some stage is
\* neither "ResBlock" nor "EfficientViTBlock" fails, whatever the stage
\* and its layers_per_block entry.
C14_UnknownBlockTypeFails ==
    (/\ ret.op \in {"Encoder.__init__", "Decoder.__init__"}
     /\ \E i \in 1..Stages : cfg.block_type[i] \notin {"ResBlock", "EfficientViTBlock"})
    => ~ret.ok

\* Every element of the tensor t equals k
AllElementsEqual(t, k) ==
    \A i \in 1..t.B : \A c \in 0..(t.C - 1) : \A y \in 0..(t.H - 1) :
        \A x \in 0..(t.W - 1) : t.data[i][c][y][x] = k

\* C15: for every DCDownBlock2d with the shortcut enabled and every input
\* (B, in_channels, H, W) with even H and W whose elements all equal k, the
\* shortcut branch yields a tensor of shape (B, out_channels, H/2, W/2) whose
\* elements all equal k.
C15_ShortcutKeepsConstant ==
    ret.op = "DCDownBlock2d.forward" =>
        /\ SameShape(ret.t, ret.x.B, cfg.block_out_channels[2],
                     ret.x.H \div 2, ret.x.W \div 2)
        /\ AllElementsEqual(ret.t, ret.arg)

\* The same for the blocks whose in_channels*4 is a multiple of out_channels
C15_DividingChannels ==
    (cfg.block_out_channels[1] * 4) % cfg.block_out_channels[2] = 0
        => C15_ShortcutKeepsConstant

\* The steps of stage i as the order claim has them: the up-sampling block
\* from stage i+1's channels, unless i is the deepest stage, then the
\* stage's layers
ClaimedStageSteps(i) ==
    (IF i < Stages
     THEN <<Step("up_blocks",
                 DCUpBlock2dInit(cfg.block_out_channels[i + 1], cfg.block_out_channels[i],
                                 cfg.upsample_block_type = "interpolate", TRUE).m)>>
     ELSE <<>>)
    \o [k \in 1..cfg.layers_per_block[i] |->
           Step("up_blocks", get_block(cfg.block_type[i], cfg.block_out_channels[i],
                                       cfg.block_out_channels[i],
                                       cfg.attention_head_dim).m)]

\* Stages i, i-1, ..., 1 in that order
RECURSIVE ClaimedStagesDown(_)
ClaimedStagesDown(i) ==
    IF i < 1 THEN <<>> ELSE ClaimedStageSteps(i) \o ClaimedStagesDown(i - 1)

ClaimedDecoderSteps ==
    <<Step("conv_in", Conv2d(cfg.latent_channels, cfg.block_out_channels[Stages], 1)),
      Step("in_shortcut", NoModule)>>
    \o ClaimedStagesDown(Stages)
    \o <<Step("norm_out", NoModule), Step("conv_act", NoModule),
         Step("conv_out", Conv2d(cfg.block_out_channels[1], cfg.in_channels, 1))>>

\* C16: Decoder.forward applies the input projection with the inner
\* shortcut, then the stage groups from the deepest stage to the shallowest,
\* each once, with the stage's up-sampling block (present for every stage but
\* the deepest) before the stage's layers, then the final normalization,
\* activation and output projection.  Stated for the calls that return and
\* the configurations whose shallowest stage has a layer (with none, the
\* output projection is itself an up-sampling block).
C16_DecoderOrder ==
    (ret.op = "Decoder.forward" /\ ret.ok /\ cfg.layers_per_block[1] > 0)
        => ret.out = ClaimedDecoderSteps

\* The same for the configurations with a layer in every stage
C16_EveryStageHasLayers ==
    AllStagesHaveLayers => C16_DecoderOrder

\* C17: for every working precision of the input the attention core
\* completes on both paths: on the linear path the products are computed in
\* float32 and the result is cast back to the input's precision; on the
\* quadratic path the scores are normalized in float32, multiplied with V,
\* and returned with no cast after the formula.
C17_AttentionPrecision ==
    ret.op = "attn" =>
        /\ ret.ok
        /\ ret.out.ok
        /\ ret.use_linear_attention =>
              /\ ret.out.products = <<"float32", "float32">>
              /\ ret.steps[Len(ret.steps)] = "to_original_dtype"
              /\ ret.out.dtype = ret.arg
        /\ ~ret.use_linear_attention =>
              /\ ret.out.normalized = <<"float32">>
              /\ Len(ret.out.products) = 2
              /\ ret.steps[Len(ret.steps)] = "apply_quadratic_attention"

\* The same for inputs of 32-bit precision
C17_Float32 ==
    ret.arg = "float32" => C17_AttentionPrecision

====
